---- MODULE Spec2Model ----
(***************************************************************************)
(* Model of generate_review_exclusion_list.py: the MEDLINE block scanner   *)
(* (ReviewExtractor._extract_if_review), the per-file parser               *)
(* (parse_medline_file), the exporter (export_for_webapp) and main().      *)
(* Text is modelled as sequences of one-character strings, so that strip,  *)
(* startswith, split and slicing are computed rather than assumed.         *)
(***************************************************************************)
EXTENDS Integers, Sequences, FiniteSets, TLC

VARIABLES
    files,            \* main: args.files, each entry a file on disk (or absent)
    format,           \* main: args.format
    pc,               \* main: position of the control thread in main()
    fileIdx,          \* main: index of the next filepath of the for loop
    review_articles,  \* ReviewExtractor.review_articles
    outfile,          \* the file at args.output
    console,          \* what has been printed, one tag per print call
    run,              \* number of the current process run
    exportCalls,      \* history: calls of export_for_webapp in this run
    outfileAtStart,   \* history: the output file when this run started
    firstRun,         \* history: result of the first completed run
    block,            \* _extract_if_review: its argument
    lines,            \* _extract_if_review: lines
    idx,              \* _extract_if_review: position of the for loop
    locals,           \* _extract_if_review: pmid, title, publication_types,
                      \*   current_field, current_value
    prevLocals,       \* history: locals before the line read last
    review_info,      \* _extract_if_review: the value returned
    xpc               \* _extract_if_review: position of the control thread

mainVars == <<files, format, pc, fileIdx, review_articles, outfile, console,
              run, exportCalls, outfileAtStart, firstRun>>
extractVars == <<block, lines, idx, locals, prevLocals, review_info, xpc>>
vars == <<files, format, pc, fileIdx, review_articles, outfile, console,
          run, exportCalls, outfileAtStart, firstRun,
          block, lines, idx, locals, prevLocals, review_info, xpc>>

-----------------------------------------------------------------------------
(* Bounds of the model *)

MaxBlockLines == 4
MaxFiles == 2
MaxPieces == 2
MaxRuns == 2

-----------------------------------------------------------------------------
(* Python string operations, on sequences of characters *)

Max(S) == CHOOSE x \in S : \A y \in S : x >= y

\* str.isspace of one character, as str.strip() and the regex class \s use it
IsSpace(c) == c \in {" ", "\t", "\n", "\r", "\f"}

\* the first index >= i of s that holds no whitespace (Len(s) + 1: none)
FirstNonSpace(s, i) ==
    CHOOSE k \in i..(Len(s) + 1) :
        /\ k = Len(s) + 1 \/ ~IsSpace(s[k])
        /\ \A j \in i..(k - 1) : IsSpace(s[j])

\* the last index <= i of s that holds no whitespace (0: none)
LastNonSpace(s, i) ==
    CHOOSE k \in 0..i :
        /\ k = 0 \/ ~IsSpace(s[k])
        /\ \A j \in (k + 1)..i : IsSpace(s[j])

\* s.strip()
Strip(s) == SubSeq(s, FirstNonSpace(s, 1), LastNonSpace(s, Len(s)))

\* s.startswith(p)
StartsWith(s, p) == Len(s) >= Len(p) /\ SubSeq(s, 1, Len(p)) = p

\* s.find(c, i - 1) + 1: the first index >= i of s that holds c (0: none)
Find(s, c, i) ==
    LET k == CHOOSE k \in i..(Len(s) + 1) :
                 /\ k = Len(s) + 1 \/ s[k] = c
                 /\ \A j \in i..(k - 1) : s[j] # c
    IN  IF k = Len(s) + 1 THEN 0 ELSE k

\* s.split(c, 1)[1], for s that contains c
AfterFirst(s, c) == SubSeq(s, Find(s, c, 1) + 1, Len(s))

\* s.split(c)
RECURSIVE SplitOn(_, _)
SplitOn(s, c) ==
    LET p == Find(s, c, 1)
    IN  IF p = 0 THEN <<s>>
        ELSE <<SubSeq(s, 1, p - 1)>> \o SplitOn(SubSeq(s, p + 1, Len(s)), c)

\* sep.join(parts)
RECURSIVE Join(_, _)
Join(parts, sep) ==
    IF parts = <<>> THEN <<>>
    ELSE IF Len(parts) = 1 THEN parts[1]
    ELSE parts[1] \o sep \o Join(Tail(parts), sep)

\* the concatenation of a sequence of sequences
RECURSIVE Concat(_)
Concat(parts) == IF parts = <<>> THEN <<>> ELSE parts[1] \o Concat(Tail(parts))

\* the last index in lo..hi of s that holds a newline (0: none)
LastNewline(s, lo, hi) ==
    LET at == {k \in lo..hi : s[k] = "\n"}
    IN  IF at = {} THEN 0 ELSE Max(at)

\* the end of the match of \n\s*\n that starts at p (0: no match): \s* is
\* greedy, so the match ends at the last newline of the whitespace that
\* follows p
MatchEnd(s, p) ==
    IF s[p] = "\n" THEN LastNewline(s, p + 1, FirstNonSpace(s, p + 1) - 1) ELSE 0

\* the start of the leftmost match of \n\s*\n at or after i (0: none)
NextMatch(s, i) ==
    LET k == CHOOSE k \in i..(Len(s) + 1) :
                 /\ k = Len(s) + 1 \/ MatchEnd(s, k) # 0
                 /\ \A j \in i..(k - 1) : MatchEnd(s, j) = 0
    IN  IF k = Len(s) + 1 THEN 0 ELSE k

\* re.split(r'\n\s*\n', s), from index i on
RECURSIVE ReSplitFrom(_, _)
ReSplitFrom(s, i) ==
    LET p == NextMatch(s, i)
    IN  IF p = 0 THEN <<SubSeq(s, i, Len(s))>>
        ELSE <<SubSeq(s, i, p - 1)>> \o ReSplitFrom(s, MatchEnd(s, p) + 1)

ReSplit(s) == ReSplitFrom(s, 1)

DigitChars == <<"0", "1", "2", "3", "4", "5", "6", "7", "8", "9">>

\* str(n) of a natural number, as an f-string formats it
RECURSIVE Decimal(_)
Decimal(n) ==
    IF n < 10 THEN <<DigitChars[n + 1]>>
    ELSE Decimal(n \div 10) \o <<DigitChars[(n % 10) + 1]>>

-----------------------------------------------------------------------------
(* ReviewExtractor._extract_if_review *)

None == "None"
PMID_PREFIX == <<"P", "M", "I", "D", "-">>
TI_PREFIX == <<"T", "I", " ", " ", "-">>
PT_PREFIX == <<"P", "T", " ", " ", "-">>
INDENT == <<" ", " ", " ", " ", " ", " ">>
review_keywords == << <<"R", "e", "v", "i", "e", "w">>, <<"S", "y", "s", "t", "e", "m", "a", "t", "i", "c", " ", "R", "e", "v", "i", "e", "w">>, <<"M", "e", "t", "a", "-", "A", "n", "a", "l", "y", "s", "i", "s">>, <<"r", "e", "v", "i", "e", "w">> >>

\* the locals of _extract_if_review before its loop
ExtractInit ==
    [pmid |-> <<>>, title |-> <<>>, publication_types |-> <<>>,
     current_field |-> None, current_value |-> <<>>]

\* lines = block.strip().split('\n')
BlockLines(b) == SplitOn(Strip(b), "\n")

\* which branch of the if/elif chain a line takes
LineKind(st, line) ==
    IF StartsWith(line, PMID_PREFIX) THEN "pmid"
    ELSE IF StartsWith(line, TI_PREFIX) THEN "title"
    ELSE IF StartsWith(line, PT_PREFIX) THEN "pt"
    ELSE IF StartsWith(line, INDENT) /\ st.current_field = "title" THEN "cont"
    ELSE "other"

PmidBranch(st, line) == [st EXCEPT !.pmid = Strip(AfterFirst(line, "-"))]

\* mutant: a new title line goes on with the accumulated value
TitleBranch_KeepsValue(st, line) ==
    [st EXCEPT !.current_field = "title",
               !.current_value = @ \o Strip(AfterFirst(line, "-"))]

TitleBranch(st, line) ==
    [st EXCEPT !.current_field = "title",
               !.current_value = Strip(AfterFirst(line, "-"))]

PtBranch(st, line) ==
    [st EXCEPT !.publication_types = Append(@, Strip(AfterFirst(line, "-")))]

\* mutant: the continuation is appended without the separating space
ContBranch_NoSeparator(st, line) ==
    [st EXCEPT !.current_value = @ \o Strip(line)]

ContBranch(st, line) ==
    [st EXCEPT !.current_value = @ \o <<" ">> \o Strip(line)]

ElseBranch(st, line) ==
    [st EXCEPT !.title = IF st.current_field = "title" THEN st.current_value ELSE @,
               !.current_field = None,
               !.current_value = <<>>]

\* one iteration of the for loop over lines
ScanLine(st, line) ==
    CASE LineKind(st, line) = "pmid" -> PmidBranch(st, line)
      [] LineKind(st, line) = "title" -> TitleBranch(st, line)
      [] LineKind(st, line) = "pt" -> PtBranch(st, line)
      [] LineKind(st, line) = "cont" -> ContBranch(st, line)
      [] OTHER -> ElseBranch(st, line)

\* the whole for loop
RECURSIVE ScanLines(_, _)
ScanLines(st, ls) ==
    IF ls = <<>> THEN st ELSE ScanLines(ScanLine(st, Head(ls)), Tail(ls))

\* "Don't forget the last field"
Flush(st) ==
    IF st.current_field = "title" THEN [st EXCEPT !.title = st.current_value] ELSE st

\* mutant: a keyword matches a publication type that starts with it
IsReview_KeywordPrefix(publication_types) ==
    \E k \in 1..Len(review_keywords) :
        \E j \in 1..Len(publication_types) :
            StartsWith(publication_types[j], review_keywords[k])

\* any(keyword in publication_types for keyword in review_keywords)
IsReview(publication_types) ==
    \E k \in 1..Len(review_keywords) :
        \E j \in 1..Len(publication_types) : publication_types[j] = review_keywords[k]

\* the returned value: <<>> is None, <<r>> the dict r
ReviewInfo(st) ==
    IF IsReview(st.publication_types) /\ st.pmid # <<>>
    THEN <<[pmid |-> st.pmid, title |-> st.title,
            publication_types |-> st.publication_types]>>
    ELSE <<>>

extract_if_review(b) == ReviewInfo(Flush(ScanLines(ExtractInit, BlockLines(b))))

-----------------------------------------------------------------------------
(* ReviewExtractor.parse_medline_file and export_for_webapp *)

\* the for loop over article_blocks: what the blocks append, in order
RECURSIVE RetainedOf(_)
RetainedOf(article_blocks) ==
    IF article_blocks = <<>> THEN <<>>
    ELSE (IF Strip(Head(article_blocks)) # <<>>
          THEN extract_if_review(Head(article_blocks)) ELSE <<>>)
         \o RetainedOf(Tail(article_blocks))

\* mutant: a record whose pmid is in the list already is not appended
RECURSIVE AppendNew(_, _)
AppendNew(articles, found) ==
    IF found = <<>> THEN articles
    ELSE AppendNew(IF \E i \in 1..Len(articles) : articles[i].pmid = Head(found).pmid
                   THEN articles ELSE Append(articles, Head(found)),
                   Tail(found))

parse_medline_file_Dedup(articles, content) ==
    AppendNew(articles, RetainedOf(ReSplit(content)))

\* self.review_articles after parse_medline_file has read content
parse_medline_file(articles, content) == articles \o RetainedOf(ReSplit(content))

TITLE_LIMIT == 80

Formats == {"pmid", "pmid_with_title", "title"}

\* the four f.write calls of the header; the last one ends with two newlines
HeaderText(n) ==
    <<"#", " ", "R", "e", "v", "i", "e", "w", " ", "a", "r", "t", "i", "c", "l", "e", "s", " ", "e", "x", "c", "l", "u", "s", "i", "o", "n", " ", "l", "i", "s", "t", "\n">>
    \o <<"#", " ", "G", "e", "n", "e", "r", "a", "t", "e", "d", " ", "a", "u", "t", "o", "m", "a", "t", "i", "c", "a", "l", "l", "y", " ", "f", "r", "o", "m", " ", "M", "E", "D", "L", "I", "N", "E", " ", "p", "u", "b", "l", "i", "c", "a", "t", "i", "o", "n", " ", "t", "y", "p", "e", "s", "\n">>
    \o <<"#", " ", "T", "o", "t", "a", "l", " ", "r", "e", "v", "i", "e", "w", "s", " ", "f", "o", "u", "n", "d", ":", " ">> \o Decimal(n) \o <<"\n">>
    \o <<"#", " ", "F", "o", "r", "m", "a", "t", ":", " ", "P", "M", "I", "D", " ", "p", "e", "r", " ", "l", "i", "n", "e", "\n", "\n">>

\* mutant: the ellipsis is added from 80 characters on
TruncatedTitle_OffByOne(t) ==
    SubSeq(t, 1, IF Len(t) < TITLE_LIMIT THEN Len(t) ELSE TITLE_LIMIT)
    \o (IF Len(t) >= TITLE_LIMIT THEN <<".", ".", ".">> ELSE <<>>)

\* article['title'][:80] followed by '...' if len(article['title']) > 80
TruncatedTitle(t) ==
    SubSeq(t, 1, IF Len(t) < TITLE_LIMIT THEN Len(t) ELSE TITLE_LIMIT)
    \o (IF Len(t) > TITLE_LIMIT THEN <<".", ".", ".">> ELSE <<>>)

\* mutant: the identifier is written without its newline
ArticleLine_NoNewline(article, format_type) ==
    CASE format_type = "pmid" -> article.pmid
      [] format_type = "pmid_with_title" ->
            <<"P", "M", "I", "D", "-">> \o article.pmid \o <<" ", "#", " ">>
            \o TruncatedTitle(article.title) \o <<"\n">>
      [] format_type = "title" -> article.title \o <<"\n">>
      [] OTHER -> <<>>

\* the f.write call of one article
ArticleLine(article, format_type) ==
    CASE format_type = "pmid" -> article.pmid \o <<"\n">>
      [] format_type = "pmid_with_title" ->
            <<"P", "M", "I", "D", "-">> \o article.pmid \o <<" ", "#", " ">>
            \o TruncatedTitle(article.title) \o <<"\n">>
      [] format_type = "title" -> article.title \o <<"\n">>
      [] OTHER -> <<>>

\* mutant: open(filename, 'a')
OpenForAppend(old) == old.content

\* open(filename, 'w'): the content the writes are appended to
OpenForWrite(old) == <<>>

\* the file after export_for_webapp
export_for_webapp(old, articles, format_type) ==
    [exists |-> TRUE,
     content |-> OpenForWrite(old) \o HeaderText(Len(articles))
                 \o Concat([i \in 1..Len(articles) |->
                               ArticleLine(articles[i], format_type)])]

-----------------------------------------------------------------------------
(* Inputs *)

Absent == [exists |-> FALSE, content |-> <<>>]

Rep(c, n) == [i \in 1..n |-> c]

\* pieces of MEDLINE text: one or two records, each with the blank line(s)
\* that end it
Pieces ==
    { <<"P", "M", "I", "D", "-", " ", "1", "\n", "P", "T", " ", " ", "-", " ", "R", "e", "v", "i", "e", "w", "\n", "\n">>,
      <<"P", "M", "I", "D", "-", " ", "2", "\n", "T", "I", " ", " ", "-", " ">> \o Rep("a", TITLE_LIMIT)
          \o <<"\n", "P", "T", " ", " ", "-", " ", "J", "o", "u", "r", "n", "a", "l", " ", "A", "r", "t", "i", "c", "l", "e", "\n", "P", "T", " ", " ", "-", " ", "M", "e", "t", "a", "-", "A", "n", "a", "l", "y", "s", "i", "s", "\n", " ", "\n">>,
      <<"P", "M", "I", "D", "-", " ", "3", "\n", "T", "I", " ", " ", "-", " ">> \o Rep("b", TITLE_LIMIT - 2)
          \o <<"\n", " ", " ", " ", " ", " ", " ", "c", "d", "\n", "P", "T", " ", " ", "-", " ", "S", "y", "s", "t", "e", "m", "a", "t", "i", "c", " ", "R", "e", "v", "i", "e", "w", "\n", "\n", "\n">>,
      <<"T", "I", " ", " ", "-", " ", "N", "o", " ", "i", "d", "\n", "P", "T", " ", " ", "-", " ", "R", "e", "v", "i", "e", "w", "\n", "\n", "P", "M", "I", "D", "-", " ", "4", "\n", "P", "T", " ", " ", "-", " ", "J", "o", "u", "r", "n", "a", "l", " ", "A", "r", "t", "i", "c", "l", "e", "\n", "P", "T", " ", " ", "-", " ", "R", "e", "v", "i", "e", "w", "s", "\n", "\n">>,
      <<"P", "M", "I", "D", "-", " ", " ", "\n", "P", "T", " ", " ", "-", " ", "R", "e", "v", "i", "e", "w", "\n", "\t", "\n", "P", "M", "I", "D", "-", " ", "5", "\n", "P", "T", " ", " ", "-", " ", "r", "e", "v", "i", "e", "w", "\n", "\n">> }

\* per file: -1 for a path that does not exist, else its number of records
Shapes == UNION {[1..f -> -1..MaxPieces] : f \in 1..MaxFiles}

RECURSIVE Total(_)
Total(sh) == IF sh = <<>> THEN 0
             ELSE (IF Head(sh) > 0 THEN Head(sh) ELSE 0) + Total(Tail(sh))

\* the files of shape sh whose records are ps, in order
FilesOf(sh, ps) ==
    [k \in 1..Len(sh) |->
        IF sh[k] < 0 THEN Absent
        ELSE [exists |-> TRUE,
              content |-> Concat(SubSeq(ps, Total(SubSeq(sh, 1, k - 1)) + 1,
                                        Total(SubSeq(sh, 1, k))))]]

FileInputs ==
    UNION {{FilesOf(sh, ps) : ps \in [1..Total(sh) -> Pieces]} :
               sh \in {s \in Shapes : Total(s) <= MaxPieces}}

\* lines a block is made of
LinePool ==
    { <<"P", "M", "I", "D", "-", " ", "1", "2", "3", "4", "5">>, <<"P", "M", "I", "D", "-", " ", "7">>, <<"T", "I", " ", " ", "-", " ", "A", " ", "S", "t", "u", "d", "y", " ", "o", "f">>, <<"T", "I", " ", " ", "-", " ", "B">>,
      <<" ", " ", " ", " ", " ", " ", "W", "i", "d", "g", "e", "t", "s">>, <<"P", "T", " ", " ", "-", " ", "R", "e", "v", "i", "e", "w">>, <<"P", "T", " ", " ", "-", " ", "J", "o", "u", "r", "n", "a", "l", " ", "A", "r", "t", "i", "c", "l", "e">>,
      <<"A", "B", " ", " ", "-", " ", "x">> }

BlockInputs ==
    {Join(ls, <<"\n">>) : ls \in UNION {[1..n -> LinePool] : n \in 1..MaxBlockLines}}

-----------------------------------------------------------------------------
(* main() *)

InitMain ==
    /\ files \in FileInputs
    /\ format \in Formats
    /\ outfile = Absent
    /\ pc = "files"
    /\ fileIdx = 1
    /\ review_articles = <<>>
    /\ console = <<>>
    /\ run = 1
    /\ exportCalls = 0
    /\ outfileAtStart = outfile
    /\ firstRun = <<>>

IdleExtract ==
    /\ block = <<>>
    /\ lines = <<>>
    /\ idx = 0
    /\ locals = ExtractInit
    /\ prevLocals = ExtractInit
    /\ review_info = <<>>
    /\ xpc = "idle"

Init == InitMain /\ IdleExtract

\* if Path(filepath).exists(): extractor.parse_medline_file(filepath)
ParseFile ==
    /\ pc = "files"
    /\ fileIdx <= Len(files)
    /\ files[fileIdx].exists
    /\ review_articles' = parse_medline_file(review_articles, files[fileIdx].content)
    /\ console' = console \o <<"Parsing file", "Found">>
    /\ fileIdx' = fileIdx + 1
    /\ UNCHANGED <<files, format, pc, outfile, run, exportCalls, outfileAtStart,
                   firstRun, extractVars>>

\* mutant: a missing file ends the loop over the files
SkipMissing_Fatal ==
    /\ pc = "files"
    /\ fileIdx <= Len(files)
    /\ ~files[fileIdx].exists
    /\ console' = Append(console, "Warning: File not found")
    /\ fileIdx' = Len(files) + 1
    /\ UNCHANGED <<files, format, pc, review_articles, outfile, run, exportCalls,
                   outfileAtStart, firstRun, extractVars>>

\* else: print(f"Warning: File {filepath} not found")
SkipMissing ==
    /\ pc = "files"
    /\ fileIdx <= Len(files)
    /\ ~files[fileIdx].exists
    /\ console' = Append(console, "Warning: File not found")
    /\ fileIdx' = fileIdx + 1
    /\ UNCHANGED <<files, format, pc, review_articles, outfile, run, exportCalls,
                   outfileAtStart, firstRun, extractVars>>

\* extractor.show_statistics(): prints only
ShowStatistics ==
    /\ pc = "files"
    /\ fileIdx > Len(files)
    /\ console' = Append(console, IF review_articles = <<>>
                                  THEN "No review articles found."
                                  ELSE "Review Articles Statistics")
    /\ pc' = "export"
    /\ UNCHANGED <<files, format, fileIdx, review_articles, outfile, run,
                   exportCalls, outfileAtStart, firstRun, extractVars>>

\* mutant: the export is not guarded by the list being non-empty
Export_Unguarded ==
    /\ pc = "export"
    /\ outfile' = export_for_webapp(outfile, review_articles, format)
    /\ exportCalls' = exportCalls + 1
    /\ console' = console \o <<"Exported", "Use this file">>
    /\ pc' = "done"
    /\ UNCHANGED <<files, format, fileIdx, review_articles, run, outfileAtStart,
                   firstRun, extractVars>>

\* if extractor.review_articles: extractor.export_for_webapp(...)
Export ==
    /\ pc = "export"
    /\ review_articles # <<>>
    /\ outfile' = export_for_webapp(outfile, review_articles, format)
    /\ exportCalls' = exportCalls + 1
    /\ console' = console \o <<"Exported", "Use this file">>
    /\ pc' = "done"
    /\ UNCHANGED <<files, format, fileIdx, review_articles, run, outfileAtStart,
                   firstRun, extractVars>>

\* else: print("No review articles found to export.")
NoExport ==
    /\ pc = "export"
    /\ review_articles = <<>>
    /\ console' = Append(console, "No review articles found to export.")
    /\ pc' = "done"
    /\ UNCHANGED <<files, format, fileIdx, review_articles, outfile, run,
                   exportCalls, outfileAtStart, firstRun, extractVars>>

\* the tool is run again on the same arguments: a new process, a new
\* ReviewExtractor, the same files on disk
Rerun ==
    /\ pc = "done"
    /\ run < MaxRuns
    /\ run' = run + 1
    /\ firstRun' = IF run = 1
                   THEN <<[review_articles |-> review_articles, outfile |-> outfile]>>
                   ELSE firstRun
    /\ review_articles' = <<>>
    /\ console' = <<>>
    /\ exportCalls' = 0
    /\ outfileAtStart' = outfile
    /\ fileIdx' = 1
    /\ pc' = "files"
    /\ UNCHANGED <<files, format, outfile, extractVars>>

Next == ParseFile \/ SkipMissing \/ ShowStatistics \/ Export \/ NoExport \/ Rerun

Spec == Init /\ [][Next]_vars

-----------------------------------------------------------------------------
(* _extract_if_review, line by line *)

IdleMain ==
    /\ files = <<>>
    /\ format = "pmid"
    /\ outfile = Absent
    /\ pc = "idle"
    /\ fileIdx = 0
    /\ review_articles = <<>>
    /\ console = <<>>
    /\ run = 0
    /\ exportCalls = 0
    /\ outfileAtStart = Absent
    /\ firstRun = <<>>

InitExtract ==
    /\ IdleMain
    /\ block \in BlockInputs
    /\ lines = <<>>
    /\ idx = 0
    /\ locals = ExtractInit
    /\ prevLocals = ExtractInit
    /\ review_info = <<>>
    /\ xpc = "call"

\* lines = block.strip().split('\n') and the initial values of the locals
BeginExtract ==
    /\ xpc = "call"
    /\ lines' = BlockLines(block)
    /\ idx' = 1
    /\ locals' = ExtractInit
    /\ prevLocals' = ExtractInit
    /\ xpc' = "loop"
    /\ UNCHANGED <<block, review_info, mainVars>>

\* one iteration of the loop, on a line of the given kind
ReadLine(kind) ==
    /\ xpc = "loop"
    /\ idx <= Len(lines)
    /\ LineKind(locals, lines[idx]) = kind
    /\ locals' = ScanLine(locals, lines[idx])
    /\ prevLocals' = locals
    /\ idx' = idx + 1
    /\ UNCHANGED <<block, lines, review_info, xpc, mainVars>>

ReadPmidLine == ReadLine("pmid")
ReadTitleLine == ReadLine("title")
ReadPtLine == ReadLine("pt")
ReadContinuationLine == ReadLine("cont")
ReadOtherLine == ReadLine("other")

\* after the loop: the last flush, the keyword test and the return
ReturnFromExtract ==
    /\ xpc = "loop"
    /\ idx > Len(lines)
    /\ locals' = Flush(locals)
    /\ review_info' = ReviewInfo(Flush(locals))
    /\ xpc' = "return"
    /\ UNCHANGED <<block, lines, idx, prevLocals, mainVars>>

NextExtract ==
    \/ BeginExtract
    \/ ReadPmidLine
    \/ ReadTitleLine
    \/ ReadPtLine
    \/ ReadContinuationLine
    \/ ReadOtherLine
    \/ ReturnFromExtract

SpecExtract == InitExtract /\ [][NextExtract]_vars

-----------------------------------------------------------------------------
(* What the claims speak of, stated on the input text and on the output    *)
(* file rather than through the scanner's own state                        *)

IsPrefix(s, t) == Len(s) <= Len(t) /\ SubSeq(t, 1, Len(s)) = s

\* the lines of a text file, as a reader of the file sees them
FileLines(text) ==
    IF text = <<>> THEN <<>>
    ELSE IF text[Len(text)] = "\n" THEN SplitOn(SubSeq(text, 1, Len(text) - 1), "\n")
    ELSE SplitOn(text, "\n")

\* the non-blank blocks of the existing files among the first k paths
RECURSIVE ParsedBlocks(_)
ParsedBlocks(k) ==
    IF k = 0 THEN <<>>
    ELSE ParsedBlocks(k - 1)
         \o (IF files[k].exists
             THEN SelectSeq(ReSplit(files[k].content), LAMBDA b : Strip(b) # <<>>)
             ELSE <<>>)

PmidLinesOf(ls) == {i \in 1..Len(ls) : StartsWith(ls[i], PMID_PREFIX)}
TitleLinesOf(ls) == {i \in 1..Len(ls) : StartsWith(ls[i], TI_PREFIX)}
IndentedLinesOf(ls) == {i \in 1..Len(ls) : StartsWith(ls[i], INDENT)}
FieldValue(line) == Strip(AfterFirst(line, "-"))

\* the identifier a block yields: the value of its last PMID- line
IdentifierOf(ls) ==
    IF PmidLinesOf(ls) = {} THEN <<>> ELSE FieldValue(ls[Max(PmidLinesOf(ls))])

\* the publication-type values of a block
PubTypesOf(ls) == {FieldValue(ls[i]) : i \in {j \in 1..Len(ls) : StartsWith(ls[j], PT_PREFIX)}}

ReviewTypes == { <<"R", "e", "v", "i", "e", "w">>, <<"S", "y", "s", "t", "e", "m", "a", "t", "i", "c", " ", "R", "e", "v", "i", "e", "w">>, <<"M", "e", "t", "a", "-", "A", "n", "a", "l", "y", "s", "i", "s">>, <<"r", "e", "v", "i", "e", "w">> }

Qualifies(b) ==
    /\ IdentifierOf(BlockLines(b)) # <<>>
    /\ PubTypesOf(BlockLines(b)) \cap ReviewTypes # {}

QualifyingBlocks(k) == SelectSeq(ParsedBlocks(k), Qualifies)

Pmids(articles) == [i \in 1..Len(articles) |-> articles[i].pmid]

Exported == pc = "done" /\ exportCalls = 1

-----------------------------------------------------------------------------
(* C1: once the files of a command line have been parsed, the records of   *)
(* review_articles are exactly the records of the blocks that yield a       *)
(* non-empty identifier and carry a publication type equal to 'Review',     *)
(* 'Systematic Review', 'Meta-Analysis' or 'review', in order; a block      *)
(* without a 'PMID-' line or with other publication types only contributes  *)
(* nothing.                                                                 *)
C1_RetainedIffIdAndKeyword ==
    pc = "export" =>
        LET q == QualifyingBlocks(Len(files))
        IN  Pmids(review_articles) = [i \in 1..Len(q) |-> IdentifierOf(BlockLines(q[i]))]

C1_Witness ==
    /\ pc = "done"
    /\ review_articles # <<>>
    /\ \E i \in 1..Len(ParsedBlocks(Len(files))) :
          LET ls == BlockLines(ParsedBlocks(Len(files))[i])
          IN  PmidLinesOf(ls) = {} /\ PubTypesOf(ls) \cap ReviewTypes # {}
    /\ \E i \in 1..Len(ParsedBlocks(Len(files))) :
          LET ls == BlockLines(ParsedBlocks(Len(files))[i])
          IN  IdentifierOf(ls) # <<>> /\ PubTypesOf(ls) \cap ReviewTypes = {}

-----------------------------------------------------------------------------
(* C2 as stated: in 'pmid' mode the exported file is the four '#' header    *)
(* lines followed directly by one data line per record, the identifiers in  *)
(* accumulation order, the header's count being the number of data lines;   *)
(* every block with a 'PMID-' line and a 'PT  - Review' line has its        *)
(* identifier among the data lines.                                         *)
HeaderOk(L, n) ==
    /\ Len(L) >= 4
    /\ \A i \in 1..4 : StartsWith(L[i], <<"#">>)
    /\ L[3] = <<"#", " ", "T", "o", "t", "a", "l", " ", "r", "e", "v", "i", "e", "w", "s", " ", "f", "o", "u", "n", "d", ":", " ">> \o Decimal(n)

C2_Original ==
    (Exported /\ format = "pmid") =>
        LET L == FileLines(outfile.content)
            blocks == ParsedBlocks(Len(files))
        IN  /\ HeaderOk(L, Len(L) - 4)
            /\ SubSeq(L, 5, Len(L)) = Pmids(review_articles)
            /\ \A i \in 1..Len(blocks) :
                  LET ls == BlockLines(blocks[i])
                  IN  (PmidLinesOf(ls) # {} /\ <<"R", "e", "v", "i", "e", "w">> \in PubTypesOf(ls))
                          => \E d \in 5..Len(L) : L[d] = IdentifierOf(ls)

(* C2 as amended: the four '#' header lines are followed by one empty line, *)
(* and only then by one data line per record: the identifiers of            *)
(* review_articles in accumulation order; the header's count is the number  *)
(* of data lines; every parsed block with a non-empty 'PMID-' value and a   *)
(* 'PT  - Review' line has its identifier among the data lines.             *)
C2_Amended ==
    (Exported /\ format = "pmid") =>
        LET L == FileLines(outfile.content)
            data == SubSeq(L, 6, Len(L))
            blocks == ParsedBlocks(Len(files))
        IN  /\ HeaderOk(L, Len(data))
            /\ Len(L) >= 5 /\ L[5] = <<>>
            /\ data = Pmids(review_articles)
            /\ \A i \in 1..Len(blocks) :
                  LET ls == BlockLines(blocks[i])
                  IN  (IdentifierOf(ls) # <<>> /\ <<"R", "e", "v", "i", "e", "w">> \in PubTypesOf(ls))
                          => \E d \in 1..Len(data) : data[d] = IdentifierOf(ls)

C2_Witness ==
    /\ Exported /\ format = "pmid"
    /\ Len(review_articles) >= 2
    /\ review_articles[1].pmid # review_articles[2].pmid
    /\ \E i \in 1..Len(ParsedBlocks(Len(files))) :
          <<"R", "e", "v", "i", "e", "w">> \in PubTypesOf(BlockLines(ParsedBlocks(Len(files))[i]))

-----------------------------------------------------------------------------
(* C3 as stated: no two records of review_articles share an identifier.     *)
C3_Original ==
    \A i, j \in 1..Len(review_articles) :
        i # j => review_articles[i].pmid # review_articles[j].pmid

(* C3 as amended: the list is not deduplicated; every qualifying block      *)
(* contributes its own record, so in 'pmid' mode an identifier is on as     *)
(* many data lines of the exported file as there are qualifying blocks that *)
(* carry it.                                                                *)
C3_Amended ==
    (Exported /\ format = "pmid") =>
        LET L == FileLines(outfile.content)
            data == SubSeq(L, 6, Len(L))
            q == QualifyingBlocks(Len(files))
        IN  \A i \in 1..Len(q) :
                LET p == IdentifierOf(BlockLines(q[i]))
                IN  Cardinality({d \in 1..Len(data) : data[d] = p})
                    = Cardinality({j \in 1..Len(q) : IdentifierOf(BlockLines(q[j])) = p})

C3_Witness ==
    /\ Exported /\ format = "pmid"
    /\ \E i, j \in 1..Len(review_articles) :
          i # j /\ review_articles[i].pmid = review_articles[j].pmid

-----------------------------------------------------------------------------
(* C5: in 'pmid_with_title' mode the title part of every data line is the   *)
(* first 80 characters of the title followed by '...' when the title has    *)
(* more than 80 characters, and the whole title, without '...', when it has *)
(* 80 characters or fewer.                                                  *)
TitlePart(line, pmid) == SubSeq(line, Len(pmid) + 9, Len(line))

C5_Truncation ==
    (Exported /\ format = "pmid_with_title") =>
        LET L == FileLines(outfile.content)
        IN  /\ Len(L) = 5 + Len(review_articles)
            /\ \A k \in 1..Len(review_articles) :
                  LET a == review_articles[k]
                      part == TitlePart(L[5 + k], a.pmid)
                  IN  /\ IsPrefix(<<"P", "M", "I", "D", "-">> \o a.pmid \o <<" ", "#", " ">>, L[5 + k])
                      /\ Len(a.title) > 80 =>
                            part = SubSeq(a.title, 1, 80) \o <<".", ".", ".">>
                      /\ Len(a.title) <= 80 => part = a.title

C5_Witness ==
    /\ Exported /\ format = "pmid_with_title"
    /\ \E k \in 1..Len(review_articles) : Len(review_articles[k].title) = 80
    /\ \E k \in 1..Len(review_articles) : Len(review_articles[k].title) > 80

-----------------------------------------------------------------------------
(* C6: a path that does not exist is skipped with a warning and leaves the  *)
(* accumulation as it is, every existing path is parsed, and the list is    *)
(* the concatenation, in command-line order, of what each existing file     *)
(* retains; within a run the list is only ever appended to.                 *)
Count(s, x) == Cardinality({i \in 1..Len(s) : s[i] = x})

RECURSIVE RetainedUpTo(_)
RetainedUpTo(k) ==
    IF k = 0 THEN <<>>
    ELSE RetainedUpTo(k - 1)
         \o (IF files[k].exists THEN RetainedOf(ReSplit(files[k].content)) ELSE <<>>)

C6_State ==
    pc # "idle" =>
        /\ pc = "export" => review_articles = RetainedUpTo(Len(files))
        /\ Count(console, "Warning: File not found")
              = Cardinality({i \in 1..(fileIdx - 1) : ~files[i].exists})
        /\ Count(console, "Parsing file")
              = Cardinality({i \in 1..(fileIdx - 1) : files[i].exists})
        /\ pc \in {"export", "done"} => fileIdx = Len(files) + 1

C6_MissingFileSkipped ==
    /\ []C6_State
    /\ [][/\ run' = run => IsPrefix(review_articles, review_articles')
          /\ SkipMissing => review_articles' = review_articles]_vars

C6_Witness ==
    /\ pc = "done"
    /\ \E i, j \in 1..Len(files) :
          /\ i < j
          /\ ~files[i].exists
          /\ files[j].exists
          /\ RetainedOf(ReSplit(files[j].content)) # <<>>
          /\ review_articles = RetainedOf(ReSplit(files[j].content))

-----------------------------------------------------------------------------
(* C7: the output file is written if and only if a record was retained:     *)
(* with none, the run leaves the output file as it found it and reports     *)
(* that there is nothing to export; with at least one, export_for_webapp    *)
(* is called exactly once, and only after all files have been parsed.       *)
C7_ExportIffRetained ==
    pc # "idle" =>
        /\ exportCalls \in {0, 1}
        /\ pc # "done" => (exportCalls = 0 /\ outfile = outfileAtStart)
        /\ exportCalls = 1 => (fileIdx = Len(files) + 1 /\ review_articles # <<>>)
        /\ (pc = "done" /\ review_articles # <<>>) => exportCalls = 1
        /\ (pc = "done" /\ review_articles = <<>>) =>
              /\ exportCalls = 0
              /\ outfile = outfileAtStart
              /\ console[Len(console)] = "No review articles found to export."
              /\ Count(console, "No review articles found.") = 1

C7_Witness ==
    /\ pc = "done"
    /\ review_articles = <<>>
    /\ exportCalls = 0
    /\ \A i \in 1..Len(files) : ~files[i].exists
    /\ Len(files) >= 2

-----------------------------------------------------------------------------
(* C8: a second run on the same files in the same order ends with the same  *)
(* retained list and the same output file content as the first.             *)
C8_Idempotent ==
    (pc = "done" /\ run >= 2) =>
        /\ review_articles = firstRun[1].review_articles
        /\ outfile = firstRun[1].outfile

C8_Witness ==
    /\ pc = "done" /\ run = 2
    /\ Len(review_articles) >= 2
    /\ exportCalls = 1
    /\ firstRun[1].outfile.exists

-----------------------------------------------------------------------------
(* C4: when the only 'TI  -' line of a block is directly followed by an     *)
(* indented line, and every further indented line comes after a line of     *)
(* some other field, the title is the trimmed title text, one space, and    *)
(* the trimmed continuation text; an indented line read while the cursor    *)
(* is not on the title changes neither the title nor the accumulated value. *)
OtherFieldLine(line) ==
    /\ ~StartsWith(line, PMID_PREFIX)
    /\ ~StartsWith(line, TI_PREFIX)
    /\ ~StartsWith(line, PT_PREFIX)
    /\ ~StartsWith(line, INDENT)

C4Case(ls, j) ==
    /\ TitleLinesOf(ls) = {j}
    /\ j + 1 \in IndentedLinesOf(ls)
    /\ \A k \in IndentedLinesOf(ls) :
          k # j + 1 => \E m \in (j + 2)..(k - 1) : OtherFieldLine(ls[m])

C4_TitleContinuation ==
    /\ xpc = "return" =>
          \A j \in 1..Len(lines) :
              C4Case(lines, j) =>
                  locals.title = FieldValue(lines[j]) \o <<" ">> \o Strip(lines[j + 1])
    /\ (xpc = "loop" /\ idx > 1 /\ StartsWith(lines[idx - 1], INDENT)) =>
          IF prevLocals.current_field = "title"
          THEN locals.current_value
                   = prevLocals.current_value \o <<" ">> \o Strip(lines[idx - 1])
          ELSE /\ locals.title = prevLocals.title
               /\ locals.current_value = prevLocals.current_value

C4_Witness ==
    /\ xpc = "return"
    /\ \E j \in 1..Len(lines) : C4Case(lines, j) /\ Len(lines) > j + 1
    /\ locals.title = <<"A", " ", "S", "t", "u", "d", "y", " ", "o", "f", " ", "W", "i", "d", "g", "e", "t", "s">>
    /\ review_info # <<>>
    /\ review_info[1].pmid = <<"1", "2", "3", "4", "5">>

-----------------------------------------------------------------------------
(* C9: with several 'PMID-' lines the identifier is the value of the last;  *)
(* with several 'TI  -' lines the title is the accumulation the last one    *)
(* started: it begins with that line's text and is the title the lines      *)
(* from that line on give by themselves.                                    *)
C9_LastOneWins ==
    xpc = "return" =>
        /\ PmidLinesOf(lines) # {} =>
              locals.pmid = FieldValue(lines[Max(PmidLinesOf(lines))])
        /\ TitleLinesOf(lines) # {} =>
              LET j == Max(TitleLinesOf(lines))
              IN  /\ IsPrefix(FieldValue(lines[j]), locals.title)
                  /\ locals.title
                        = Flush(ScanLines(ExtractInit,
                                          SubSeq(lines, j, Len(lines)))).title

C9_Witness ==
    /\ xpc = "return"
    /\ Cardinality(PmidLinesOf(lines)) = 2
    /\ Cardinality(TitleLinesOf(lines)) = 2
    /\ locals.pmid = <<"7">>
    /\ locals.title = <<"B">>

-----------------------------------------------------------------------------
====
